---- MODULE Spec2Model ----
(***************************************************************************)
(* Model of the Green-Kubo correlation pipeline of MDSuite:                *)
(*   mdsuite/calculators/green_kubo_distinct_diffusion_coefficients.py     *)
(*   mdsuite/analysis/flux_analyses.py                                     *)
(*                                                                         *)
(* Real numbers are kept exact.  A quotient is a record [num, den] that is *)
(* never reduced; den = 0 with num = 0 is the value numpy prints as nan.   *)
(* The reported uncertainty is kept as its square (uncertainty_sq), so no  *)
(* square root is taken.                                                   *)
(***************************************************************************)
EXTENDS Integers, Sequences, FiniteSets, TLC

\* ------------------------------------------------------------------ bounds
MaxRange == 3
MaxStride == 2
MaxLen == 4
MaxParticles == 2

\* ------------------------------------------------- experiment constants
LengthUnit == 1
TimeUnit == 1
TimeStep == 1
SampleRate == 2
Dimensions == 3

\* The species of the experiment, in the order of experiment.species.
ExperimentSpecies == <<"A", "B">>

SpeciesIndex(s) == CHOOSE k \in 1..Len(ExperimentSpecies) : ExperimentSpecies[k] = s

\* The synthetic trajectories the store may hold.
Datasets == {"ones", "const", "ramp"}

\* ------------------------------------------------------------ arithmetic
RECURSIVE SumSeq(_)
SumSeq(s) == IF s = <<>> THEN 0 ELSE Head(s) + SumSeq(Tail(s))

Zeros(n) == [k \in 1..n |-> 0]

AddSeq(x, y) == [k \in 1..Len(x) |-> x[k] + y[k]]

\* A quotient num/den; NaN is 0/0.
Quot(n, d) == [num |-> n, den |-> d]

NaN == Quot(0, 0)

IsNaN(q) == q.den = 0 /\ q.num = 0

\* Equality of two quotients as numbers (nan equals nothing, itself included).
QuotEq(p, q) == /\ p.den # 0
                /\ q.den # 0
                /\ p.num * q.den = q.num * p.den

\* ------------------------------------------------------- stored trajectory
\* The velocity of particle p (1-based) of species s at time step t (0-based):
\* a vector of Dimensions components.
Velocity(ds, s, p, t) ==
    CASE ds = "ones"  -> <<1, 1, 1>>
      [] ds = "const" -> <<p, 0 - 1, SpeciesIndex(s)>>
      [] ds = "ramp"  -> <<t - 1, p, 1>>

\* read_property_batch: the slice [start, start + length) of every particle of
\* one species; result[p][t][idx].
ReadPropertyBatch(ex, s, start, length) ==
    [p \in 1..ex.n_particles[s] |->
        [t \in 1..length |-> Velocity(ex.dataset, s, p, start + t - 1)]]

\* ------------------------------------------------------------ correlation
\* Correlate as a transform without zero padding would give it: the lag wraps
\* around the window.
CorrelateCircular(in1, in2) ==
    LET N == Len(in1)
    IN  [k \in 1..(2 * N - 1) |->
            SumSeq([l \in 1..N |-> in1[l] * in2[((l - k + N - 1) % N) + 1]])]

\* scipy.signal.correlate(in1, in2, mode="full") of two real signals of equal
\* length N: z[k] = SUM_l in1[l] * in2[l - k + N - 1], k = 0 .. 2N-2 (0-based).
Correlate(in1, in2) ==
    LET N == Len(in1)
    IN  [k \in 1..(2 * N - 1) |->
            SumSeq([l \in 1..N |->
                LET m == l - k + N
                IN  IF m \in 1..N THEN in1[l] * in2[m] ELSE 0])]

\* data[...][:, idx]: one Cartesian component of a particle's window.
Column(x, idx) == [t \in 1..Len(x) |-> x[t][idx]]

RECURSIVE SumArrays(_, _)
SumArrays(arrays, zero) ==
    IF arrays = <<>> THEN zero
    ELSE AddSeq(Head(arrays), SumArrays(Tail(arrays), zero))

\* sum([signal.correlate(a[:, idx], b[:, idx], mode="full") for idx in range(3)])
PairCorrelation(a, b) ==
    SumArrays([idx \in 1..Dimensions |-> Correlate(Column(a, idx), Column(b, idx))],
              Zeros(2 * Len(a) - 1))

\* vacf[int(data_range - 1):]
OneSided(v, data_range) == SubSeq(v, data_range, Len(v))

\* The pairs of a double loop whose inner loop starts at j = i.
PairsVisitedFromI(n0, n1, same_species) ==
    {ij \in (0..(n0 - 1)) \X (0..(n1 - 1)) :
        /\ ij[2] \in ij[1]..(n1 - 1)
        /\ ~(same_species /\ ij[1] = ij[2])}

\* The particle pairs (i, j), 0-based, the double loop of ensemble_operation
\* reaches and does not skip.
PairsVisited(n0, n1, same_species) ==
    {ij \in (0..(n0 - 1)) \X (0..(n1 - 1)) :
        /\ ij[2] \in (ij[1] + 1)..(n1 - 1)
        /\ ~(same_species /\ ij[1] = ij[2])}

RECURSIVE SumPairs(_, _, _, _)
SumPairs(pairs, d0, d1, zero) ==
    IF pairs = {} THEN zero
    ELSE LET ij == CHOOSE x \in pairs : TRUE
         IN  AddSeq(PairCorrelation(d0[ij[1] + 1], d1[ij[2] + 1]),
                    SumPairs(pairs \ {ij}, d0, d1, zero))

\* The local array vacf of ensemble_operation after its double loop.
EnsembleVacf(d0, d1, same_species, data_range) ==
    SumPairs(PairsVisited(Len(d0), Len(d1), same_species), d0, d1,
             Zeros(2 * data_range - 1))

\* np.trapz(y, x=x)
Trapz(y, x) ==
    SumSeq([k \in 1..(Len(y) - 1) |-> ((x[k + 1] - x[k]) * (y[k + 1] + y[k])) \div 2])

\* _handle_tau_values: tau = 0 .. data_range-1 scaled by time_step * sample_rate.
HandleTauValues(data_range) ==
    [k \in 1..data_range |-> (k - 1) * TimeStep * SampleRate]

\* np.mean(prefactor * sigma): the samples share the prefactor's denominator.
\* Of no samples it is 0/0, which numpy returns as nan.
Mean(result) ==
    IF result = <<>> THEN NaN
    ELSE Quot(SumSeq([k \in 1..Len(result) |-> result[k].num]),
              result[1].den * Len(result))

\* (np.std(result) / np.sqrt(len(result))) ** 2, np.std with its default ddof=0:
\* (N * SUM x^2 - (SUM x)^2) / N^2 / N.  Of no samples it is nan.
StdErrSq(result) ==
    IF result = <<>> THEN NaN
    ELSE LET N == Len(result)
             S == SumSeq([k \in 1..N |-> result[k].num])
             Q == SumSeq([k \in 1..N |-> result[k].num * result[k].num])
         IN  Quot(N * Q - S * S, N * N * N * result[1].den * result[1].den)

\* prefactor * np.array(sigma)
ScaleArray(pre, sig) == [k \in 1..Len(sig) |-> Quot(pre.num * sig[k], pre.den)]

\* ---------------------------------------------------------- combinations
\* itertools.combinations(species, 2): the pairs without replacement.
CombinationsWithoutReplacement(sp) ==
    LET n == Len(sp)
        pairs == {ij \in (1..n) \X (1..n) : ij[1] < ij[2]}
        Before(p, q) == p[1] < q[1] \/ (p[1] = q[1] /\ p[2] < q[2])
    IN  [k \in 1..Cardinality(pairs) |->
            LET ij == CHOOSE p \in pairs :
                          Cardinality({q \in pairs : Before(q, p)}) = k - 1
            IN  <<sp[ij[1]], sp[ij[2]]>>]

\* list(itertools.combinations_with_replacement(species, 2))
CombinationsWithReplacement(sp) ==
    LET n == Len(sp)
        pairs == {ij \in (1..n) \X (1..n) : ij[1] <= ij[2]}
        Before(p, q) == p[1] < q[1] \/ (p[1] = q[1] /\ p[2] < q[2])
    IN  [k \in 1..Cardinality(pairs) |->
            LET ij == CHOOSE p \in pairs :
                          Cardinality({q \in pairs : Before(q, p)}) = k - 1
            IN  <<sp[ij[1]], sp[ij[2]]>>]

\* --------------------------------------------------------- batch source
\* get_batch_dataset(species_values): memory is ample, so the whole stored
\* trajectory comes as one batch, whatever the species; a trajectory without
\* time steps gives no batch.
BatchDataset(ex, species_values) ==
    LET L == ex.series_len
    IN  IF L = 0 THEN <<>> ELSE <<[start |-> 0, length |-> L]>>

\* get_ensemble_dataset(batch, species_values): the window offsets
\* 0, stride, 2*stride, ... while offset + data_range <= len(batch).
EnsembleOffsets(length, data_range, stride) ==
    LET count == IF length < data_range THEN 0
                 ELSE ((length - data_range) \div stride) + 1
    IN  [k \in 1..count |-> (k - 1) * stride]

\* One ensemble: for each species of the combination its particles' windows.
Ensemble(ex, species_values, start, data_range) ==
    [k \in 1..2 |-> ReadPropertyBatch(ex, species_values[k], start, data_range)]

\* --------------------------------------------------------------- prefactor
\* atom_scale with n * n for a pair of one species.
AtomScaleSquared(ex, species) ==
    ex.n_particles[species[1]] * ex.n_particles[species[2]]

\* atom_scale of _calculate_prefactor.
AtomScale(ex, species) ==
    IF species[1] = species[2]
    THEN ex.n_particles[species[1]] * (ex.n_particles[species[2]] - 1)
    ELSE ex.n_particles[species[1]] * ex.n_particles[species[2]]

PrefactorNumerator == LengthUnit * LengthUnit

PrefactorDenominator(ex, species, data_range) ==
    Dimensions * TimeUnit * (data_range - 1) * AtomScale(ex, species)

\* ------------------------------------------------------------------ state
VARIABLES
    experiment,    \* the experiment the calculator was constructed on
    args,          \* self.args
    time,          \* self.time
    species,       \* self.species
    combinations,  \* self.combinations
    vacf,          \* self.vacf
    sigma,         \* self.sigma
    prefactor,     \* self.prefactor
    pc,            \* position of the caller in __call__ / run_calculator
    ci,            \* index (1-based) of the combination of the outer loop
    batches,       \* batch_ds of the current combination, not yet consumed
    pending,       \* ensemble_ds of the current batch, not yet consumed
    batch_start,   \* first time step of the current batch
    records,       \* what queue_data received, in order
    calls,         \* how often each collaborator / method ran in this run
    error,         \* the exception that ended the run, "" if none
    minibatch,     \* self.memory_manager.minibatch
    progress,      \* the progress bars run_calculator opened in this run, in order
    visited,       \* the particle pairs (i, j) the last ensemble_operation summed
    runs,          \* the earlier runs on this object: what each left behind
    corr,          \* one particle pair of ensemble_operation: its windows and sum
    flux           \* the state of _GreenKuboThermalConductivityFlux

vars == <<experiment, args, time, species, combinations, vacf, sigma, prefactor,
          pc, ci, batches, pending, batch_start, records, calls, error, minibatch,
          progress, visited, runs, corr, flux>>

NoArgs == [data_range |-> 0, correlation_time |-> 0,
           species |-> [given |-> FALSE, list |-> <<>>],
           integration_range |-> 0]

NoCalls == [get_batch_dataset |-> 0, ensemble_operation |-> 0,
            calculate_prefactor |-> 0]

\* The stores a calculator may be constructed on: the number of particles of
\* each species, the number of time steps of the trajectory (one length for
\* every stored series) and the velocities.
Experiments ==
    [n_particles : [{"A", "B"} -> 1..MaxParticles],
     series_len  : 0..MaxLen,
     dataset     : Datasets]

\* The species argument of __call__: None, or a list.
SpeciesChoices ==
    {[given |-> FALSE, list |-> <<>>],
     [given |-> TRUE, list |-> <<"A">>],
     [given |-> TRUE, list |-> <<"B", "A">>]}

NoCorr == [a |-> <<>>, b |-> <<>>, out |-> <<>>]

NoFlux == [data_range |-> 0, len |-> 0, dataset |-> "ones", pc |-> "idle", i |-> 0,
           loop_range |-> 0, sigma |-> <<>>, prefactor |-> NaN, mean |-> NaN,
           uncertainty_sq |-> NaN, error |-> ""]

\* __init__ on the experiment ex, whose memory manager reports minibatch = mb.
Constructed(ex, mb) ==
    /\ experiment = ex
    /\ args = NoArgs
    /\ time = <<>>
    /\ species = <<>>
    /\ combinations = <<>>
    /\ vacf = <<>>
    /\ sigma = <<>>
    /\ prefactor = NaN
    /\ pc = "constructed"
    /\ ci = 0
    /\ batches = <<>>
    /\ pending = <<>>
    /\ batch_start = 0
    /\ records = <<>>
    /\ calls = NoCalls
    /\ error = ""
    /\ minibatch = mb
    /\ progress = <<>>
    /\ visited = {}
    /\ runs = <<>>
    /\ corr = NoCorr
    /\ flux = NoFlux

\* A calculator constructed on any experiment whose memory is ample: the
\* memory manager plans without minibatching.
Init == \E ex \in Experiments : Constructed(ex, FALSE)

\* The integration_range argument of __call__: None, or a number of points.
NoIntegrationRange == [given |-> FALSE, value |-> 0]

\* The body of __call__: lines 147-171.  It assigns self.args, self.time,
\* self.species, self.vacf and self.combinations, and nothing else of the object.
CallBody(sp, data_range, correlation_time, integration_range) ==
    /\ args' = [data_range |-> data_range, correlation_time |-> correlation_time,
                species |-> sp,
                integration_range |-> IF integration_range.given
                                      THEN integration_range.value
                                      ELSE data_range]
    /\ time' = HandleTauValues(data_range)
    /\ species' = IF sp.given THEN sp.list ELSE ExperimentSpecies
    /\ vacf' = Zeros(data_range)
    /\ combinations' = CombinationsWithReplacement(species')
    /\ pc' = "called"
    /\ calls' = NoCalls
    /\ progress' = <<>>
    /\ UNCHANGED <<experiment, sigma, prefactor, ci, batches, pending, batch_start,
                   minibatch, visited, corr, flux>>

\* __call__(species, data_range, correlation_time, integration_range) on a
\* calculator that was constructed and not called before.
Call(sp, data_range, correlation_time, integration_range) ==
    /\ pc = "constructed"
    /\ CallBody(sp, data_range, correlation_time, integration_range)
    /\ UNCHANGED <<records, error, runs>>

\* run_calculator up to the head of its outer loop: check_input runs the
\* dependency check only.
CheckInput ==
    /\ pc = "called"
    /\ ci' = 1
    /\ pc' = IF combinations = <<>> THEN "done" ELSE "get_batch"
    /\ UNCHANGED <<experiment, args, time, species, combinations, vacf, sigma,
                   prefactor, batches, pending, batch_start, records, calls, error,
                   minibatch, progress, visited, runs, corr, flux>>

\* A bar that is shown whatever the memory manager reports.
ProgressBarShown(combination, mb) == [desc |-> combination, disable |-> FALSE]

\* tqdm(batch_ds, desc=f"{combination[0]}-{combination[1]}",
\*      disable=self.memory_manager.minibatch): the bar of one combination.
ProgressBar(combination, mb) == [desc |-> combination, disable |-> mb]

\* batch_ds = self.get_batch_dataset(species_values), and the progress bar the
\* for statement of line 224 wraps around it.
GetBatchDataset ==
    /\ pc = "get_batch"
    /\ batches' = BatchDataset(experiment, combinations[ci])
    /\ calls' = [calls EXCEPT !.get_batch_dataset = @ + 1]
    /\ progress' = Append(progress, ProgressBar(combinations[ci], minibatch))
    /\ pc' = "batch_loop"
    /\ UNCHANGED <<experiment, args, time, species, combinations, vacf, sigma,
                   prefactor, ci, pending, batch_start, records, error, minibatch,
                   visited, runs, corr, flux>>

\* for batch in batch_ds: ensemble_ds = self.get_ensemble_dataset(batch, ...)
NextBatch ==
    /\ pc = "batch_loop"
    /\ batches # <<>>
    /\ batch_start' = Head(batches).start
    /\ pending' = EnsembleOffsets(Head(batches).length, args.data_range,
                                  args.correlation_time)
    /\ batches' = Tail(batches)
    /\ pc' = IF pending' = <<>> THEN "batch_loop" ELSE "ensemble_loop"
    /\ UNCHANGED <<experiment, args, time, species, combinations, vacf, sigma,
                   prefactor, ci, records, calls, error, minibatch, progress,
                   visited, runs, corr, flux>>

\* The batch loop is exhausted.
EndBatches ==
    /\ pc = "batch_loop"
    /\ batches = <<>>
    /\ pc' = "prefactor"
    /\ UNCHANGED <<experiment, args, time, species, combinations, vacf, sigma,
                   prefactor, ci, batches, pending, batch_start, records, calls,
                   error, minibatch, progress, visited, runs, corr, flux>>

\* The one-sided half of the local array vacf of ensemble_operation.
EnsembleOneSided(data, same_species, data_range) ==
    OneSided(EnsembleVacf(data[1], data[2], same_species, data_range), data_range)

\* self.vacf after ensemble_operation, entered with self.vacf = old, for the
\* one-sided half one_sided: line 190 zeroes self.vacf, line 208 adds to it.
VacfAfterEnsemble(old, one_sided) == AddSeq(Zeros(Len(one_sided)), one_sided)

\* The integral ensemble_operation appends to self.sigma.
EnsembleIntegral(one_sided, t) == Trapz(one_sided, t)

\* self.ensemble_operation(ensemble, dict_ref): same_species keeps its default.
EnsembleOperation ==
    /\ pc = "ensemble_loop"
    /\ pending # <<>>
    /\ LET data == Ensemble(experiment, combinations[ci],
                            batch_start + Head(pending), args.data_range)
           one_sided == EnsembleOneSided(data, FALSE, args.data_range)
       IN  /\ vacf' = VacfAfterEnsemble(vacf, one_sided)
           /\ sigma' = Append(sigma, EnsembleIntegral(one_sided, time))
           /\ visited' = PairsVisited(Len(data[1]), Len(data[2]), FALSE)
    /\ pending' = Tail(pending)
    /\ calls' = [calls EXCEPT !.ensemble_operation = @ + 1]
    /\ pc' = IF pending' = <<>> THEN "batch_loop" ELSE "ensemble_loop"
    /\ UNCHANGED <<experiment, args, time, species, combinations, prefactor, ci,
                   batches, batch_start, records, error, minibatch, progress, runs,
                   corr, flux>>

\* self._calculate_prefactor(combination); a zero denominator raises.
CalculatePrefactor ==
    /\ pc = "prefactor"
    /\ calls' = [calls EXCEPT !.calculate_prefactor = @ + 1]
    /\ LET den == PrefactorDenominator(experiment, combinations[ci], args.data_range)
       IN  IF den = 0
           THEN /\ error' = "ZeroDivisionError"
                /\ pc' = "failed"
                /\ UNCHANGED prefactor
           ELSE /\ prefactor' = Quot(PrefactorNumerator, den)
                /\ pc' = "post"
                /\ UNCHANGED error
    /\ UNCHANGED <<experiment, args, time, species, combinations, vacf, sigma, ci,
                   batches, pending, batch_start, records, minibatch, progress,
                   visited, runs, corr, flux>>

\* The data dictionary _post_operation_processes queues; result is its local array.
ResultRecord(subjects, pre, sig, t, v) ==
    LET result == ScaleArray(pre, sig)
    IN  [subjects              |-> subjects,
         result                |-> result,
         diffusion_coefficient |-> Mean(result),
         uncertainty_sq        |-> StdErrSq(result),
         time                  |-> t,
         vacf                  |-> v]

\* The same step without line 237: self.sigma is carried into the next
\* combination.
PostOperationProcessesKeepingSigma ==
    /\ pc = "post"
    /\ records' = Append(records,
                         ResultRecord(combinations[ci], prefactor, sigma, time, vacf))
    /\ ci' = ci + 1
    /\ pc' = IF ci' > Len(combinations) THEN "done" ELSE "get_batch"
    /\ UNCHANGED <<experiment, args, time, species, combinations, vacf, sigma,
                   prefactor, batches, pending, batch_start, calls, error, minibatch,
                   progress, visited, runs, corr, flux>>

\* self._post_operation_processes(combination); self.sigma = []; next combination.
PostOperationProcesses ==
    /\ pc = "post"
    /\ records' = Append(records,
                         ResultRecord(combinations[ci], prefactor, sigma, time, vacf))
    /\ sigma' = <<>>
    /\ ci' = ci + 1
    /\ pc' = IF ci' > Len(combinations) THEN "done" ELSE "get_batch"
    /\ UNCHANGED <<experiment, args, time, species, combinations, vacf, prefactor,
                   batches, pending, batch_start, calls, error, minibatch, progress,
                   visited, runs, corr, flux>>

Next ==
    \/ \E sp \in SpeciesChoices, dr \in 1..MaxRange, ct \in 1..MaxStride :
           Call(sp, dr, ct, NoIntegrationRange)
    \/ CheckInput
    \/ GetBatchDataset
    \/ NextBatch
    \/ EndBatches
    \/ EnsembleOperation
    \/ CalculatePrefactor
    \/ PostOperationProcesses

Spec == Init /\ [][Next]_vars

\* ------------------------------------- a calculator object that is run again
\* How many runs (__call__ followed by run_calculator) one object gets.
MaxRuns == 2

\* What a run leaves behind when the next __call__ arrives: the records it
\* queued, the exception that ended it, the combination it had reached and
\* self.sigma as it stands.
RunLeft == [records |-> records, error |-> error, ci |-> ci, sigma |-> sigma]

\* The storage collaborator raises while run_calculator draws the next batch
\* or the next ensemble from its datasets; nothing catches the exception, so
\* run_calculator is left at once: no retry, lines 235-237 are not reached.
StorageReadFailure ==
    /\ \/ pc = "batch_loop" /\ batches # <<>>
       \/ pc = "ensemble_loop" /\ pending # <<>>
    /\ error' = "StorageReadFailure"
    /\ pc' = "failed"
    /\ UNCHANGED <<experiment, args, time, species, combinations, vacf, sigma,
                   prefactor, ci, batches, pending, batch_start, records, calls,
                   minibatch, progress, visited, runs, corr, flux>>

\* __call__ once more on the same object, after a run that completed or
\* raised, with the arguments of the run before.
CallAgain ==
    /\ pc \in {"done", "failed"}
    /\ Len(runs) + 1 < MaxRuns
    /\ CallBody(args.species, args.data_range, args.correlation_time,
                [given |-> TRUE, value |-> args.integration_range])
    /\ runs' = Append(runs, RunLeft)
    /\ records' = <<>>
    /\ error' = ""

NextRerun ==
    \/ Next
    \/ StorageReadFailure
    \/ CallAgain

SpecRerun == Init /\ [][NextRerun]_vars

\* --------------------------- all of the caller's and the planner's choices
\* The integration_range argument: left out, or 1 .. data_range points.
IntegrationChoices(data_range) ==
    {NoIntegrationRange} \cup {[given |-> TRUE, value |-> v] : v \in 1..data_range}

\* __init__ on any experiment, the memory manager planning with or without
\* minibatching.
InitConfigured == \E ex \in Experiments, mb \in BOOLEAN : Constructed(ex, mb)

NextConfigured ==
    \/ \E sp \in SpeciesChoices, dr \in 1..MaxRange, ct \in 1..MaxStride :
           \E ir \in IntegrationChoices(dr) : Call(sp, dr, ct, ir)
    \/ CheckInput
    \/ GetBatchDataset
    \/ NextBatch
    \/ EndBatches
    \/ EnsembleOperation
    \/ CalculatePrefactor
    \/ PostOperationProcesses

SpecConfigured == InitConfigured /\ [][NextConfigured]_vars

\* ------------------------------------------------- one particle pair alone
\* The velocity vectors the windows of a pair are drawn from.
Vectors == {<<1, 1, 1>>, <<2, 0 - 1, 0>>, <<0, 0, 0>>}

calcVars == <<experiment, args, time, species, combinations, vacf, sigma, prefactor,
              pc, ci, batches, pending, batch_start, records, calls, error,
              minibatch, progress, visited, runs>>

\* A calculator that is constructed and never called.
IdleCalculator ==
    /\ experiment = [n_particles |-> [s \in {"A", "B"} |-> 1],
                     series_len  |-> 0,
                     dataset     |-> "ones"]
    /\ args = NoArgs
    /\ time = <<>>
    /\ species = <<>>
    /\ combinations = <<>>
    /\ vacf = <<>>
    /\ sigma = <<>>
    /\ prefactor = NaN
    /\ pc = "constructed"
    /\ ci = 0
    /\ batches = <<>>
    /\ pending = <<>>
    /\ batch_start = 0
    /\ records = <<>>
    /\ calls = NoCalls
    /\ error = ""
    /\ minibatch = FALSE
    /\ progress = <<>>
    /\ visited = {}
    /\ runs = <<>>

InitCorr ==
    /\ IdleCalculator
    /\ flux = NoFlux
    /\ \E n \in 1..MaxRange :
           \E a \in [1..n -> Vectors], b \in [1..n -> Vectors] :
               corr = [a |-> a, b |-> b, out |-> <<>>]

\* The summand of the double loop for one pair (i, j), cut to its one-sided
\* half as line 208 cuts the sum.
CorrelatePair ==
    /\ corr.a # <<>>
    /\ corr.out = <<>>
    /\ corr' = [corr EXCEPT !.out = OneSided(PairCorrelation(corr.a, corr.b),
                                             Len(corr.a))]
    /\ UNCHANGED <<calcVars, flux>>

NextCorr == CorrelatePair

SpecCorr == InitCorr /\ [][NextCorr]_vars

\* --------------------------------------- _GreenKuboThermalConductivityFlux
MaxFluxLen == 6

\* temperature ** 2 * boltzmann_constant * volume * units['length'] ** 3
FluxThermalTerm == 1

\* load_flux_matrix: flux[t] is the flux vector of time step t (0-based).
LoadFluxMatrix(ds, len) == [t \in 1..len |-> Velocity(ds, "A", 1, t - 1)]

\* loop_range = len(flux) - self.data_range - 1
LoopRange(len, data_range) == len - data_range - 1

\* prefactor = 1 / (3 * (data_range / 2 - 1) * ...), as a quotient of integers.
FluxPrefactor(data_range) == Quot(2, 3 * (data_range - 2) * FluxThermalTerm)

\* np.trapz(jacf, x=self.time), self.time = np.linspace(0, data_range * time_step
\* * sample_rate * units['time'], data_range): the spacing is that end point
\* over data_range - 1.
FluxIntegral(jacf, data_range) ==
    IF Len(jacf) < 2 THEN Quot(0, 1)
    ELSE Quot(data_range * TimeStep * SampleRate * TimeUnit
                  * SumSeq([k \in 1..(Len(jacf) - 1) |-> jacf[k + 1] + jacf[k]]),
              2 * (data_range - 1))

\* One pass of the loop of convolution: the window flux[i : i + data_range]
\* correlated with itself, cut to its second half and integrated.
FluxWindowIntegral(fl, i, data_range) ==
    LET w == SubSeq(fl, i + 1, i + data_range)
    IN  FluxIntegral(OneSided(PairCorrelation(w, w), data_range), data_range)

FluxInputs == [data_range : 1..MaxRange, len : 0..MaxFluxLen, dataset : Datasets]

InitFlux ==
    /\ IdleCalculator
    /\ corr = NoCorr
    /\ \E inp \in FluxInputs :
           flux = [NoFlux EXCEPT !.data_range = inp.data_range, !.len = inp.len,
                                 !.dataset = inp.dataset, !.pc = "start"]

\* _compute_thermal_conductivity up to line 68: the prefactor (a zero
\* denominator raises), the flux matrix and the loop range.
FluxPrepare ==
    /\ flux.pc = "start"
    /\ flux' = IF FluxPrefactor(flux.data_range).den = 0
               THEN [flux EXCEPT !.pc = "failed", !.error = "ZeroDivisionError"]
               ELSE [flux EXCEPT !.pc = "convolution",
                                 !.prefactor = FluxPrefactor(flux.data_range),
                                 !.loop_range = LoopRange(flux.len, flux.data_range)]
    /\ UNCHANGED <<calcVars, corr>>

\* convolution: for i in range(loop_range)
FluxWindow ==
    /\ flux.pc = "convolution"
    /\ flux.i < flux.loop_range
    /\ flux' = [flux EXCEPT
           !.sigma = Append(@, FluxWindowIntegral(LoadFluxMatrix(flux.dataset, flux.len),
                                                  flux.i, flux.data_range)),
           !.i = @ + 1]
    /\ UNCHANGED <<calcVars, corr>>

\* sigma = prefactor * np.array(sigma); np.mean(sigma), np.std(sigma) / np.sqrt(len(sigma))
FluxStatistics(pre, sig) ==
    LET result == [k \in 1..Len(sig) |-> Quot(pre.num * sig[k].num, pre.den * sig[k].den)]
    IN  [mean |-> Mean(result), uncertainty_sq |-> StdErrSq(result)]

FluxFinish ==
    /\ flux.pc = "convolution"
    /\ flux.i >= flux.loop_range
    /\ flux' = [flux EXCEPT
           !.mean = FluxStatistics(flux.prefactor, flux.sigma).mean,
           !.uncertainty_sq = FluxStatistics(flux.prefactor, flux.sigma).uncertainty_sq,
           !.pc = "done"]
    /\ UNCHANGED <<calcVars, corr>>

NextFlux ==
    \/ FluxPrepare
    \/ FluxWindow
    \/ FluxFinish

SpecFlux == InitFlux /\ [][NextFlux]_vars

\* ===================================================================== claims
\* What the claims compare the program with: the ensembles one combination
\* yields by itself, as a fresh calculator would see them.
RECURSIVE OwnStarts(_, _, _)
OwnStarts(bs, data_range, stride) ==
    IF bs = <<>> THEN <<>>
    ELSE LET offs == EnsembleOffsets(Head(bs).length, data_range, stride)
         IN  [k \in 1..Len(offs) |-> Head(bs).start + offs[k]]
             \o OwnStarts(Tail(bs), data_range, stride)

StartsOf(comb) ==
    OwnStarts(BatchDataset(experiment, comb), args.data_range, args.correlation_time)

\* The one-sided correlation of the ensemble of comb that starts at time step st.
OneSidedOf(comb, st) ==
    EnsembleOneSided(Ensemble(experiment, comb, st, args.data_range), FALSE,
                     args.data_range)

IntegralsOf(comb) ==
    LET starts == StartsOf(comb)
    IN  [m \in 1..Len(starts) |-> Trapz(OneSidedOf(comb, starts[m]), time)]

\* The particle-count term the specification gives for a combination.
ExpectedAtomScale(comb) ==
    IF comb[1] = comb[2]
    THEN experiment.n_particles[comb[1]] * (experiment.n_particles[comb[1]] - 1)
    ELSE experiment.n_particles[comb[1]] * experiment.n_particles[comb[2]]

ExpectedDenominator(comb) ==
    3 * TimeUnit * (args.data_range - 1) * ExpectedAtomScale(comb)

InCombination == pc \in {"batch_loop", "ensemble_loop", "prefactor", "post"}

\* A record's correlation series as its own ensembles alone build it.
RECURSIVE OwnSeries(_, _, _)
OwnSeries(v, comb, starts) ==
    IF starts = <<>> THEN v
    ELSE OwnSeries(VacfAfterEnsemble(v, OneSidedOf(comb, Head(starts))),
                   comb, Tail(starts))

\* The element-wise sum of the first k one-sided correlations of comb.
RECURSIVE SumOneSided(_, _, _)
SumOneSided(comb, starts, k) ==
    IF k = 0 THEN Zeros(args.data_range)
    ELSE AddSeq(OneSidedOf(comb, starts[k]), SumOneSided(comb, starts, k - 1))

\* The species the caller asked for, and their pairs with replacement.
RequestedSpecies == IF args.species.given THEN args.species.list ELSE ExperimentSpecies

WithReplacementPairs ==
    {<<RequestedSpecies[p[1]], RequestedSpecies[p[2]]>> :
        p \in {q \in (1..Len(RequestedSpecies)) \X (1..Len(RequestedSpecies)) :
                  q[1] <= q[2]}}

\* The number of offsets 0, stride, ... with offset + data_range <= L.
ExpectedWindows(L, data_range, stride) ==
    Cardinality({o \in 0..L : o % stride = 0 /\ o + data_range <= L})

\* |v|^2, and a pair of equal windows that hold one vector throughout.
SquaredMagnitude(v) == v[1] * v[1] + v[2] * v[2] + v[3] * v[3]

ConstantWindow ==
    /\ corr.out # <<>>
    /\ corr.a = corr.b
    /\ \A t \in 1..Len(corr.a) : corr.a[t] = corr.a[1]

\* SUM over time and dimensions of a[t] * b[t] for two particles' windows.
LagZero(a, b) ==
    SumSeq([t \in 1..Len(a) |->
        SumSeq([idx \in 1..3 |-> a[t][idx] * b[t][idx]])])

\* C1 (accumulator isolation): every emitted record holds the scalar samples of
\* its own combination's ensembles only, and a correlation series built from
\* zero out of its own ensembles only; a combination without ensembles reports
\* the zero series.
AccumulatorIsolation ==
    \A k \in 1..Len(records) :
        LET r == records[k]
        IN  args.data_range >= 2 =>
            /\ r.vacf = OwnSeries(Zeros(args.data_range), r.subjects,
                                  StartsOf(r.subjects))
            /\ Len(r.result) = Len(StartsOf(r.subjects))
            /\ LET integrals == IntegralsOf(r.subjects)
               IN  \A m \in 1..Len(r.result) :
                       r.result[m].num * ExpectedDenominator(r.subjects)
                           = PrefactorNumerator * integrals[m] * r.result[m].den

AccumulatorIsolationWitness ==
    /\ pc = "done"
    /\ args.data_range >= 2
    /\ Len(records) = 3
    /\ Len(records[1].result) >= 2
    /\ records[1].result[1].num # 0
    /\ records[2].result # records[1].result
    /\ records[2].vacf # records[1].vacf

\* C2 (running sum): once k >= 1 ensembles of the current combination went
\* through ensemble_operation, self.vacf is the element-wise sum of the
\* one-sided correlations of all k of them.
RunningSum ==
    (InCombination /\ Len(sigma) >= 1 /\ args.data_range >= 2)
        => vacf = SumOneSided(combinations[ci], StartsOf(combinations[ci]), Len(sigma))

\* C3 (record emission order): the combinations are the with-replacement pairs
\* of the requested, or by default all, species; while combination ci is being
\* processed exactly the records of the ci - 1 combinations before it exist;
\* each record holds one sample per ensemble of its combination; a completed run
\* has emitted one record per combination, in order.
RecordEmissionOrder ==
    (pc \notin {"constructed"}) =>
        /\ {combinations[k] : k \in 1..Len(combinations)} = WithReplacementPairs
        /\ 2 * Len(combinations) = Len(RequestedSpecies) * (Len(RequestedSpecies) + 1)
        /\ (InCombination \/ pc = "get_batch") => Len(records) = ci - 1
        /\ (pc = "done") => Len(records) = Len(combinations)
        /\ \A k \in 1..Len(records) :
               /\ records[k].subjects = combinations[k]
               /\ Len(records[k].result) = Len(StartsOf(combinations[k]))

RecordEmissionOrderWitness ==
    /\ pc = "done"
    /\ Len(records) = 3
    /\ \E k \in 1..3 : Len(records[k].result) >= 2

\* C4 (empty sample set): a combination without ensembles ends in an error,
\* not in a record: no emitted record is without samples, and none has an
\* undefined mean or an undefined standard error.
EmptySampleSetSurfaced ==
    \A k \in 1..Len(records) :
        /\ records[k].result # <<>>
        /\ ~IsNaN(records[k].diffusion_coefficient)
        /\ ~IsNaN(records[k].uncertainty_sq)

\* C5 (invalid window): with data_range < 2 or correlation_time < 1 the run is
\* over with an InvalidWindow error once __call__ and check_input have run, and
\* no batch was requested, no ensemble processed, no prefactor computed.
InvalidWindowRejected ==
    (pc \notin {"constructed", "called"}
        /\ (args.data_range < 2 \/ args.correlation_time < 1))
        => /\ error = "InvalidWindow"
           /\ calls.get_batch_dataset = 0
           /\ calls.ensemble_operation = 0
           /\ calls.calculate_prefactor = 0

\* C6 (window count): a series of length L gives one window per offset
\* 0, stride, 2 * stride, ... with offset + data_range <= L; the flux calculator
\* (stride 1) has then integrated L - data_range + 1 windows, one for
\* L = data_range and none for L = data_range - 1.
WindowCount ==
    (flux.pc = "done" /\ flux.data_range >= 2)
        => Len(flux.sigma) = ExpectedWindows(flux.len, flux.data_range, 1)

\* C7 (lag 0): after ensemble_operation on two ensembles a and b (called, as
\* run_calculator calls it, with same_species = False, so that no pair is to be
\* skipped) the one-sided correlation has data_range elements and its first
\* element is the sum over the particles of a and of b, the dimensions and the
\* time steps of a[t] * b[t].
LagZeroDefinition ==
    (InCombination /\ Len(sigma) >= 1 /\ args.data_range >= 2) =>
        LET comb == combinations[ci]
            data == Ensemble(experiment, comb, StartsOf(comb)[Len(sigma)],
                             args.data_range)
        IN  /\ Len(vacf) = args.data_range
            /\ vacf[1] = SumSeq([i \in 1..Len(data[1]) |->
                             SumSeq([j \in 1..Len(data[2]) |->
                                 LagZero(data[1][i], data[2][j])])])

\* C8 as the specification states it (constant-velocity reference): for a
\* window whose velocity is the same vector v at every time step, the one-sided
\* correlation with itself is data_range * |v|^2 at every lag.
ConstantVelocityConstantCorrelation ==
    ConstantWindow =>
        \A lag \in 0..(Len(corr.a) - 1) :
            corr.out[lag + 1] = Len(corr.a) * SquaredMagnitude(corr.a[1])

\* C8 as amended: for such a window the one-sided correlation has data_range
\* elements and its value at lag tau is (data_range - tau) * |v|^2: data_range
\* * |v|^2 at lag 0 and |v|^2 at lag data_range - 1.
ConstantVelocityCorrelation ==
    ConstantWindow =>
        /\ Len(corr.out) = Len(corr.a)
        /\ \A lag \in 0..(Len(corr.a) - 1) :
               corr.out[lag + 1] = (Len(corr.a) - lag) * SquaredMagnitude(corr.a[1])

ConstantVelocityCorrelationWitness ==
    /\ ConstantWindow
    /\ Len(corr.a) >= 3
    /\ SquaredMagnitude(corr.a[1]) > 0
    /\ corr.out[3] # corr.out[1]

\* C9 (prefactor): the prefactor is computed once per combination, after its
\* ensembles and before its record; its denominator is 3 * time unit *
\* (data_range - 1) * n * (n - 1) for a pair of one species and
\* 3 * time unit * (data_range - 1) * n_a * n_b otherwise; every sample of a
\* record is its own combination's prefactor times the ensemble's integral (the
\* records are looked at where _post_operation_processes, the only step that
\* queues one, has just returned).
PrefactorPerCombination ==
    /\ (pc \in {"get_batch", "batch_loop", "ensemble_loop", "prefactor"})
           => calls.calculate_prefactor = ci - 1
    /\ (pc \in {"post"}) =>
           /\ calls.calculate_prefactor = ci
           /\ batches = <<>> /\ pending = <<>>
           /\ Len(sigma) = Len(StartsOf(combinations[ci]))
           /\ prefactor.den = ExpectedDenominator(combinations[ci])
           /\ prefactor.num = LengthUnit * LengthUnit
    /\ (pc \in {"get_batch", "done"}) =>
           \A k \in 1..Len(records) :
               LET integrals == IntegralsOf(records[k].subjects)
               IN  \A m \in 1..Len(records[k].result) :
                       /\ records[k].result[m].den
                              = ExpectedDenominator(records[k].subjects)
                       /\ records[k].result[m].num
                              = LengthUnit * LengthUnit * integrals[m]

PrefactorPerCombinationWitness ==
    /\ Len(records) >= 2
    /\ records[1].subjects[1] = records[1].subjects[2]
    /\ records[2].subjects[1] # records[2].subjects[2]
    /\ records[1].result # <<>>
    /\ records[2].result # <<>>
    /\ records[1].result[1].den # records[2].result[1].den
    /\ records[2].result[1].num # 0

\* C10 (standard error): for N >= 2 samples the reported coefficient is their
\* arithmetic mean and the reported uncertainty is the sample standard deviation
\* (divisor N - 1) over sqrt(N); squared: SUM (x - mean)^2 / (N - 1) / N.
StandardError ==
    \A k \in 1..Len(records) :
        LET x == records[k].result
            N == Len(x)
            S == SumSeq([m \in 1..N |-> x[m].num])
            Q == SumSeq([m \in 1..N |-> x[m].num * x[m].num])
        IN  N >= 2 =>
                /\ QuotEq(records[k].diffusion_coefficient, Quot(S, N * x[1].den))
                /\ QuotEq(records[k].uncertainty_sq,
                          Quot(N * Q - S * S, N * N * (N - 1) * x[1].den * x[1].den))

\* The smaller of two numbers.
Min(a, b) == IF a <= b THEN a ELSE b

\* What the run before the current one left on the object.
RunBefore == runs[Len(runs)]

\* C11 (idempotence): when an object is run a second time on the same data with
\* the same arguments, and the storage failed in neither run, every record of
\* the second run equals the record the first run queued for that combination,
\* and a second run that completes has queued as many records as the first.
Idempotence ==
    (runs # <<>> /\ RunBefore.error # "StorageReadFailure"
                /\ error # "StorageReadFailure") =>
        /\ \A k \in 1..Min(Len(records), Len(RunBefore.records)) :
               records[k] = RunBefore.records[k]
        /\ (pc = "done") => Len(records) = Len(RunBefore.records)

\* C12 (integration range): the integral ensemble_operation appends as a scalar
\* sample is the trapezoidal integral over the first integration_range points
\* of the ensemble's one-sided correlation function (all data_range points
\* when the caller gave no integration_range).
IntegrationRangeUsed ==
    (InCombination /\ Len(sigma) >= 1 /\ args.data_range >= 2) =>
        LET comb == combinations[ci]
            one_sided == OneSidedOf(comb, StartsOf(comb)[Len(sigma)])
            n == args.integration_range
        IN  sigma[Len(sigma)] = Trapz(SubSeq(one_sided, 1, n), SubSeq(time, 1, n))

\* C13 (failure isolation): a run that a storage read failure ended has
\* requested each combination's batches once (no retry) and queued no record for
\* the combination it was in; and when that failure came after one or more
\* ensembles of the combination, every record a later run on the same object
\* queues holds one sample per ensemble of its own combination and nothing else.
FailureIsolation ==
    /\ (pc = "failed" /\ error = "StorageReadFailure") =>
           /\ Len(records) = ci - 1
           /\ calls.get_batch_dataset = ci
    /\ (runs # <<>> /\ RunBefore.error = "StorageReadFailure"
                    /\ RunBefore.sigma # <<>>) =>
           \A k \in 1..Len(records) :
               LET integrals == IntegralsOf(records[k].subjects)
               IN  /\ Len(records[k].result) = Len(integrals)
                   /\ \A m \in 1..Len(integrals) :
                          records[k].result[m].num
                              = PrefactorNumerator * integrals[m]

\* An ensemble of the current combination has gone through ensemble_operation.
EnsembleDone == InCombination /\ Len(sigma) >= 1 /\ args.data_range >= 2

\* C14 (no self-correlation): after ensemble_operation on an ensemble of a
\* combination of one species with itself, none of the particle pairs the
\* double loop visited is a pair (i, i), and the correlation sum is the sum over
\* the visited pairs (compared where ensemble_operation returns to, the loops
\* over the ensembles and the batches; no later step touches self.vacf).
NoSelfCorrelation ==
    (EnsembleDone /\ combinations[ci][1] = combinations[ci][2]) =>
        /\ \A ij \in visited : ij[1] # ij[2]
        /\ (pc \in {"ensemble_loop", "batch_loop"}) =>
               LET comb == combinations[ci]
                   data == Ensemble(experiment, comb, StartsOf(comb)[Len(sigma)],
                                    args.data_range)
               IN  vacf = OneSided(SumPairs(visited, data[1], data[2],
                                            Zeros(2 * args.data_range - 1)),
                                   args.data_range)

NoSelfCorrelationWitness ==
    /\ EnsembleDone
    /\ combinations[ci][1] = combinations[ci][2]
    /\ experiment.n_particles[combinations[ci][1]] >= 2
    /\ visited # {}
    /\ vacf[1] # 0

\* C16 (pair count matches normalisation): after ensemble_operation on an
\* ensemble, the number of particle pairs whose correlation it summed is the
\* particle-count term of the combination's prefactor: n * (n - 1) for one
\* species with itself, n_a * n_b for two species.
PairCountMatchesNormalisation ==
    EnsembleDone =>
        /\ Cardinality(visited) = AtomScale(experiment, combinations[ci])
        /\ Cardinality(visited) = ExpectedAtomScale(combinations[ci])

\* C17 (prefactor always defined): with data_range >= 2 and one or more
\* particles of every species, _calculate_prefactor returns, with a prefactor
\* whose denominator is not zero, for every combination.
PrefactorDefined ==
    (args.data_range >= 2 /\ pc \in {"post", "failed"}
        /\ \A s \in {"A", "B"} : experiment.n_particles[s] >= 1) =>
        /\ error # "ZeroDivisionError"
        /\ pc = "post"
        /\ prefactor.den # 0

\* C15 (progress suppression): run_calculator opens one batch progress bar per
\* combination it reaches, labelled with that combination, and every one of
\* them is disabled when the memory manager reports minibatch = true and
\* enabled when it reports minibatch = false.
ProgressSuppression ==
    /\ Len(progress) = calls.get_batch_dataset
    /\ \A k \in 1..Len(progress) :
           /\ progress[k].desc = combinations[k]
           /\ progress[k].disable = minibatch

ProgressSuppressionWitness ==
    /\ pc = "done"
    /\ minibatch
    /\ Len(progress) = 3
    /\ \A k \in 1..3 : progress[k].disable
    /\ \E k \in 1..3 : Len(records[k].result) >= 2

====
